---- MODULE Spec2Model ----
(***************************************************************************)
(* A model of the TCP connection pool of jseow5177/tcp_pool                 *)
(* (src/internal/tcp/pool.go) and of its length-prefixed framing.           *)
(*                                                                          *)
(* Pool part: NumCallers goroutines each call SendData once, at any time;   *)
(* one goroutine runs handleConnectionRequest (the fulfiller).  Every       *)
(* statement that takes or gives the mutex, sends or receives on a channel, *)
(* dials, or touches the idle map is a step of its own, so that every       *)
(* interleaving the Go scheduler can produce is a behaviour of Spec.        *)
(*                                                                          *)
(* Time is counted in whole seconds by the running timers, and a second    *)
(* may pass between any two steps.                                          *)
(*                                                                          *)
(* Framing part: createTcpBuffer, tcpConn.Write and tcpConn.Read on one     *)
(* socket, written by the program (FrameSpec) or by a remote peer that      *)
(* sends what it likes (PeerSpec).                                          *)
(*                                                                          *)
(* Server part: NumSessions goroutines run HandleClientConnection           *)
(* (src/internal/tcp/handler.go) on the handlers registered by the server's *)
(* main (ServerSpec).                                                       *)
(***************************************************************************)
EXTENDS Integers, Sequences, FiniteSets, TLC

\* ------------------------------------------------------------------ bounds
NumCallers == 3     \* concurrent SendData callers
MaxOpenCfg == 2     \* TcpConfig.MaxOpenConn ranges over 0..MaxOpenCfg
MaxIdleCfg == 2     \* TcpConfig.MaxIdleConns ranges over 0..MaxIdleCfg
MaxNano    == 2     \* readings of time.Now().UnixNano() range over 1..MaxNano
MaxMsgs    == 2     \* framing: messages written to one socket
MaxRaw     == 6     \* framing: pieces a remote peer writes to one socket
NumSessions == 2    \* server: accepted sockets, each with its HandleClientConnection
MaxReqs    == 2     \* server: envelopes a client sends on one socket

\* ------------------------------------------------------- program constants
prefixSize     == 4
maxQueueLength == 10000
TimeoutSecs    == 3

Callers   == 1..NumCallers
Fulfiller == 0              \* the goroutine of handleConnectionRequest
Free      == -1             \* the mutex is not held
NoConn    == 0
Conns     == 1..NumCallers  \* connection objects (every task dials at most once)
ConnIds   == 1..MaxNano

VARIABLES
    maxOpenCount,  \* TcpConnPool.maxOpenCount
    maxIdleCount,  \* TcpConnPool.maxIdleCount
    reliable,      \* the environment: TRUE when no dial, write or read fails
    mu,            \* TcpConnPool.mu: Free or the task holding it
    idleConns,     \* TcpConnPool.idleConns: a function id -> connection object
    numOpen,       \* TcpConnPool.numOpen
    requestChan,   \* TcpConnPool.requestChan: the queued requests, by caller
    connChan,      \* connRequest.connChan of each caller's request (capacity 1)
    errChan,       \* connRequest.errChan of each caller's request (capacity 1)
    connId,        \* tcpConn.id of each connection object (0: not created)
    sock,          \* tcpConn.conn of each object: "none", "open", "closedRelease", "closedTerminate"
    dialled,       \* number of connection objects created so far
    pc,            \* each caller's position in SendData
    conn,          \* the connection a caller got from get()
    result,        \* what SendData returned to each caller
    pcF,           \* the fulfiller's position in handleConnectionRequest
    curReq,        \* the request the fulfiller is serving
    timer,         \* seconds since the fulfiller started timeoutChan (stops at TimeoutSecs)
    waited,        \* seconds since each caller queued its request (stops past TimeoutSecs)
    crashed,       \* the runtime aborted the process (concurrent map access)
    fSent,         \* framing: the payloads given to tcpConn.Write, in order
    fWire,         \* framing: the buffers createTcpBuffer built for them
    fStream,       \* framing: the bytes written to the socket and not yet read
    fClosed,       \* framing: the writing side has closed the socket
    fOut,          \* framing: what each tcpConn.Read of the other side returned
    fIn,           \* framing: what each tcpConn.Read met on the socket
    fRaw,          \* framing: the pieces a remote peer has written
    sess,          \* server: the locals of each HandleClientConnection, and what it did
    hReq,          \* server: the object handlerCfg.Request of the login_user handler
    hRes           \* server: the object handlerCfg.Response of the login_user handler

vars == <<maxOpenCount, maxIdleCount, reliable, mu, idleConns, numOpen,
          requestChan, connChan, errChan, connId, sock, dialled, pc, conn,
          result, pcF, curReq, timer, waited, crashed,
          fSent, fWire, fStream, fClosed, fOut, fIn, fRaw, sess, hReq, hRes>>

cfgVars  == <<maxOpenCount, maxIdleCount, reliable>>
chanVars == <<requestChan, connChan, errChan>>
connVars == <<connId, sock, dialled>>
fulVars  == <<pcF, curReq, timer>>
frameVars == <<fSent, fWire, fStream, fClosed, fOut, fIn, fRaw>>
serverVars == <<sess, hReq, hRes>>
poolVars == <<maxOpenCount, maxIdleCount, reliable, mu, idleConns, numOpen,
              requestChan, connChan, errChan, connId, sock, dialled, pc, conn,
              result, pcF, curReq, timer, waited, crashed>>

\* ----------------------------------------------------------------- helpers
Range(f) == {f[x] : x \in DOMAIN f}

\* delete(p.idleConns, id)
MapDelete(m, id) == [k \in (DOMAIN m) \ {id} |-> m[k]]

\* p.idleConns[c.id] = c
MapPut(m, id, k) == [j \in (DOMAIN m) \cup {id} |-> IF j = id THEN k ELSE m[j]]

\* the test of case 2 off by one
SaturatedOffByOne == maxOpenCount > 0 /\ numOpen > maxOpenCount

\* pool.go:218, the test of case 2 of get()
Saturated == maxOpenCount > 0 /\ numOpen >= maxOpenCount

\* pool.go:306, the fulfiller's test for opening a new connection
HasHeadroom == maxOpenCount > 0 /\ numOpen < maxOpenCount

\* the test of release() off by one
HasIdleRoomOffByOne == maxIdleCount > 0 /\ maxIdleCount >= Cardinality(DOMAIN idleConns)

\* the test of release() the wrong way round
HasIdleRoomInverted == maxIdleCount > 0 /\ maxIdleCount < Cardinality(DOMAIN idleConns)

\* pool.go:193, the test of release()
HasIdleRoom == maxIdleCount > 0 /\ maxIdleCount > Cardinality(DOMAIN idleConns)

\* time.Now().UnixNano() (pool.go:264): the wall clock does not run backwards,
\* and two readings may be equal.
ClockReadings == {t \in ConnIds : \A k \in Conns : t >= connId[k]}

\* the connection handed out stays in the map
TakeIdleKeep(m, id) == m

\* get() and the fulfiller remove the connection they hand out (pool.go:211, 300)
TakeIdle(m, id) == MapDelete(m, id)

\* SendData releases the connection after a failed Write or Read
OnIoErrorRelease == "releaseLock"

\* SendData after a failed Write or Read: p.terminate(tcpConn) (pool.go:170, 177)
OnIoError == "terminate"

\* the count is left as it is
UndoCountNot(n) == n

\* p.numOpen-- after a failed dial (pool.go:245, 314)
UndoCount(n) == n - 1

\* Some task other than c is inside a section that reads or writes the idle map.
MapAccessedBesides(c) ==
    \/ \E d \in Callers \ {c} : pc[d] \in {"getDecide", "releaseDecide", "termDelete"}
    \/ pcF = "locked"

\* ------------------------------------------------------- server: the shapes
Sessions == 1..NumSessions

\* the fields of model.LoginUserRequest (user.go:3-6)
Fields == {"username", "password"}

\* the zero value of a field, and the value the r-th envelope of session s
\* carries in every field it holds
Zero == <<0, 0>>
Tag(s, r) == <<s, r>>

\* &model.LoginUserRequest{} and &model.LoginUserResponse{} (part_000:23-24)
NewRequest  == [f \in Fields |-> Zero]
NewResponse == [err_code |-> 0, message |-> ""]

\* The envelopes a client sends: a command, the fields its data holds, and
\* whether the data is well-formed JSON.
Envelopes ==
    { [command |-> "login_user", fields |-> Fields,        wellFormed |-> TRUE],
      [command |-> "login_user", fields |-> {"username"},  wellFormed |-> TRUE],
      [command |-> "login_user", fields |-> {},            wellFormed |-> FALSE],
      [command |-> "nope",       fields |-> {},            wellFormed |-> TRUE] }

NoPacket == [command |-> "", fields |-> {}, wellFormed |-> TRUE]

\* the commands registered at startup (part_000:18-25)
handlers == {"login_user"}

\* a lookup that finds a handler for every command
RegisteredAny(cmd) == TRUE

\* handlerCfg, exist := handlers[packet.Command] (handler.go:55)
Registered(cmd) == cmd \in handlers

\* LoginUser (part_000:47-49): res.Message = "Got it!"
LoginUser(req, res) == [res EXCEPT !.message = "Got it!"]

\* ------------------------------------------------------------------- Init
\* CreateTcpConnPool: an empty pool; the fulfiller waits on requestChan.
Init ==
    /\ maxOpenCount \in 0..MaxOpenCfg
    /\ maxIdleCount \in 0..MaxIdleCfg
    /\ reliable \in BOOLEAN
    /\ mu = Free
    /\ idleConns = << >>
    /\ numOpen = 0
    /\ requestChan = << >>
    /\ connChan = [c \in Callers |-> NoConn]
    /\ errChan = [c \in Callers |-> FALSE]
    /\ connId = [k \in Conns |-> 0]
    /\ sock = [k \in Conns |-> "none"]
    /\ dialled = 0
    /\ pc = [c \in Callers |-> "idle"]
    /\ conn = [c \in Callers |-> NoConn]
    /\ result = [c \in Callers |-> "none"]
    /\ pcF = "range"
    /\ curReq = 0
    /\ timer = 0
    /\ waited = [c \in Callers |-> 0]
    /\ crashed = FALSE
    /\ fSent = << >>
    /\ fWire = << >>
    /\ fStream = << >>
    /\ fClosed = FALSE
    /\ fOut = << >>
    /\ fIn = << >>
    /\ fRaw = 0
    /\ sess = [s \in Sessions |->
                 [pc |-> "read", n |-> 0, packet |-> NoPacket, todo |-> {},
                  arg |-> NewRequest, res |-> NewResponse, response |-> NewResponse,
                  calls |-> 0, answered |-> 0, err |-> "nil", closed |-> FALSE]]
    /\ hReq = NewRequest
    /\ hRes = NewResponse

\* ---------------------------------------------------------------- callers
\* A caller invokes SendData.
SendData(c) ==
    /\ ~crashed
    /\ pc[c] = "idle"
    /\ pc' = [pc EXCEPT ![c] = "getLock"]
    /\ UNCHANGED <<serverVars, frameVars, cfgVars, mu, idleConns, numOpen, chanVars, connVars, conn,
                   result, fulVars, waited, crashed>>

\* get(): p.mu.Lock()
GetLock(c) ==
    /\ ~crashed
    /\ pc[c] = "getLock"
    /\ mu = Free
    /\ mu' = c
    /\ pc' = [pc EXCEPT ![c] = "getDecide"]
    /\ UNCHANGED <<serverVars, frameVars, cfgVars, idleConns, numOpen, chanVars, connVars, conn,
                   result, fulVars, waited, crashed>>

\* get() case 1 (pool.go:206-215): take any idle connection, unlock, return it.
GetIdle(c) ==
    /\ ~crashed
    /\ pc[c] = "getDecide"
    /\ DOMAIN idleConns # {}
    /\ \E id \in DOMAIN idleConns :
          /\ conn' = [conn EXCEPT ![c] = idleConns[id]]
          /\ idleConns' = TakeIdle(idleConns, connId[idleConns[id]])
    /\ mu' = Free
    /\ pc' = [pc EXCEPT ![c] = "write"]
    /\ UNCHANGED <<serverVars, frameVars, cfgVars, numOpen, chanVars, connVars, result, fulVars,
                   waited, crashed>>

\* get() case 2 (pool.go:218-225): queue a request; the mutex is not released.
GetQueue(c) ==
    /\ ~crashed
    /\ pc[c] = "getDecide"
    /\ DOMAIN idleConns = {}
    /\ Saturated
    /\ Len(requestChan) < maxQueueLength
    /\ requestChan' = Append(requestChan, c)
    /\ waited' = [waited EXCEPT ![c] = 0]
    /\ pc' = [pc EXCEPT ![c] = "wait"]
    /\ UNCHANGED <<serverVars, frameVars, cfgVars, mu, idleConns, numOpen, connChan, errChan, connVars,
                   conn, result, fulVars, crashed>>

\* get() case 2 (pool.go:230-235): the select on the request's two channels.
\* A connection is returned to SendData, which goes on to write; an error is
\* returned by SendData (pool.go:163-165).  Either way the mutex stays locked.
GetSelect(c) ==
    /\ ~crashed
    /\ pc[c] = "wait"
    /\ \E ready \in {"connChan", "errChan"} :
          IF ready = "connChan"
          THEN /\ connChan[c] # NoConn
               /\ conn' = [conn EXCEPT ![c] = connChan[c]]
               /\ connChan' = [connChan EXCEPT ![c] = NoConn]
               /\ pc' = [pc EXCEPT ![c] = "write"]
               /\ UNCHANGED <<errChan, result>>
          ELSE /\ errChan[c]
               /\ errChan' = [errChan EXCEPT ![c] = FALSE]
               /\ result' = [result EXCEPT ![c] = "ErrConnectionTimeout"]
               /\ pc' = [pc EXCEPT ![c] = "done"]
               /\ UNCHANGED <<connChan, conn>>
    /\ UNCHANGED <<serverVars, frameVars, cfgVars, mu, idleConns, numOpen, requestChan, connVars,
                   fulVars, waited, crashed>>

\* get() case 3 (pool.go:238-240): count the connection, unlock, go and dial.
GetOpenNew(c) ==
    /\ ~crashed
    /\ pc[c] = "getDecide"
    /\ DOMAIN idleConns = {}
    /\ ~Saturated
    /\ numOpen' = numOpen + 1
    /\ mu' = Free
    /\ pc' = [pc EXCEPT ![c] = "dial"]
    /\ UNCHANGED <<serverVars, frameVars, cfgVars, idleConns, chanVars, connVars, conn, result,
                   fulVars, waited, crashed>>

\* openNewTcpConnection succeeds (pool.go:254-268): a new object whose id is
\* the reading of the wall clock.
DialOk(c) ==
    /\ ~crashed
    /\ pc[c] = "dial"
    /\ dialled < NumCallers
    /\ \E id \in ClockReadings :
          connId' = [connId EXCEPT ![dialled + 1] = id]
    /\ sock' = [sock EXCEPT ![dialled + 1] = "open"]
    /\ dialled' = dialled + 1
    /\ conn' = [conn EXCEPT ![c] = dialled + 1]
    /\ pc' = [pc EXCEPT ![c] = "write"]
    /\ UNCHANGED <<serverVars, frameVars, cfgVars, mu, idleConns, numOpen, chanVars, result, fulVars,
                   waited, crashed>>

\* openNewTcpConnection fails (pool.go:243).
DialFail(c) ==
    /\ ~crashed
    /\ pc[c] = "dial"
    /\ ~reliable
    /\ pc' = [pc EXCEPT ![c] = "dialFailLock"]
    /\ UNCHANGED <<serverVars, frameVars, cfgVars, mu, idleConns, numOpen, chanVars, connVars, conn,
                   result, fulVars, waited, crashed>>

\* pool.go:244-247: lock, undo the count, unlock, return the dial error.
DialFailReturn(c) ==
    /\ ~crashed
    /\ pc[c] = "dialFailLock"
    /\ mu = Free
    /\ numOpen' = UndoCount(numOpen)
    /\ result' = [result EXCEPT ![c] = "DialError"]
    /\ pc' = [pc EXCEPT ![c] = "done"]
    /\ UNCHANGED <<serverVars, frameVars, cfgVars, mu, idleConns, chanVars, connVars, conn, fulVars,
                   waited, crashed>>

\* SendData: tcpConn.Write succeeds (pool.go:168).
WriteOk(c) ==
    /\ ~crashed
    /\ pc[c] = "write"
    /\ pc' = [pc EXCEPT ![c] = "read"]
    /\ UNCHANGED <<serverVars, frameVars, cfgVars, mu, idleConns, numOpen, chanVars, connVars, conn,
                   result, fulVars, waited, crashed>>

\* SendData: tcpConn.Write fails (pool.go:169-172).
WriteFail(c) ==
    /\ ~crashed
    /\ pc[c] = "write"
    /\ ~reliable
    /\ result' = [result EXCEPT ![c] = "WriteError"]
    /\ pc' = [pc EXCEPT ![c] = OnIoError]
    /\ UNCHANGED <<serverVars, frameVars, cfgVars, mu, idleConns, numOpen, chanVars, connVars, conn,
                   fulVars, waited, crashed>>

\* SendData: tcpConn.Read succeeds (pool.go:175); next is release (pool.go:182).
ReadOk(c) ==
    /\ ~crashed
    /\ pc[c] = "read"
    /\ pc' = [pc EXCEPT ![c] = "releaseLock"]
    /\ UNCHANGED <<serverVars, frameVars, cfgVars, mu, idleConns, numOpen, chanVars, connVars, conn,
                   result, fulVars, waited, crashed>>

\* SendData: tcpConn.Read fails (pool.go:176-179).
ReadFail(c) ==
    /\ ~crashed
    /\ pc[c] = "read"
    /\ ~reliable
    /\ result' = [result EXCEPT ![c] = "ReadError"]
    /\ pc' = [pc EXCEPT ![c] = OnIoError]
    /\ UNCHANGED <<serverVars, frameVars, cfgVars, mu, idleConns, numOpen, chanVars, connVars, conn,
                   fulVars, waited, crashed>>

\* terminate(): tcpConn.conn.Close() (pool.go:155).
TerminateClose(c) ==
    /\ ~crashed
    /\ pc[c] = "terminate"
    /\ sock' = [sock EXCEPT ![conn[c]] = "closedTerminate"]
    /\ pc' = [pc EXCEPT ![c] = "termDelete"]
    /\ UNCHANGED <<serverVars, frameVars, cfgVars, mu, idleConns, numOpen, chanVars, connId, dialled,
                   conn, result, fulVars, waited, crashed>>

\* terminate(): delete(p.idleConns, tcpConn.id) (pool.go:156), made without the
\* mutex.  When another task is inside a section that reads or writes the map,
\* the Go runtime may abort the process ("concurrent map writes", "concurrent
\* map iteration and map write") or may not notice.
TerminateDelete(c) ==
    /\ ~crashed
    /\ pc[c] = "termDelete"
    /\ idleConns' = MapDelete(idleConns, connId[conn[c]])
    /\ IF MapAccessedBesides(c) THEN crashed' \in BOOLEAN ELSE crashed' = crashed
    /\ pc' = [pc EXCEPT ![c] = "done"]
    /\ UNCHANGED <<serverVars, frameVars, cfgVars, mu, numOpen, chanVars, connVars, conn, result,
                   fulVars, waited>>

\* release(): p.mu.Lock() (pool.go:190).
ReleaseLock(c) ==
    /\ ~crashed
    /\ pc[c] = "releaseLock"
    /\ mu = Free
    /\ mu' = c
    /\ pc' = [pc EXCEPT ![c] = "releaseDecide"]
    /\ UNCHANGED <<serverVars, frameVars, cfgVars, idleConns, numOpen, chanVars, connVars, conn,
                   result, fulVars, waited, crashed>>

\* release(): the idle map has room; store the connection (pool.go:193-194),
\* unlock (deferred), SendData returns the response (pool.go:184).
ReleaseStore(c) ==
    /\ ~crashed
    /\ pc[c] = "releaseDecide"
    /\ HasIdleRoom
    /\ idleConns' = MapPut(idleConns, connId[conn[c]], conn[c])
    /\ mu' = Free
    /\ result' = [result EXCEPT ![c] = "ok"]
    /\ pc' = [pc EXCEPT ![c] = "done"]
    /\ UNCHANGED <<serverVars, frameVars, cfgVars, numOpen, chanVars, connVars, conn, fulVars, waited,
                   crashed>>

\* release(): no room; close the socket and uncount it (pool.go:195-198).
ReleaseClose(c) ==
    /\ ~crashed
    /\ pc[c] = "releaseDecide"
    /\ ~HasIdleRoom
    /\ sock' = [sock EXCEPT ![conn[c]] = "closedRelease"]
    /\ numOpen' = numOpen - 1
    /\ mu' = Free
    /\ result' = [result EXCEPT ![c] = "ok"]
    /\ pc' = [pc EXCEPT ![c] = "done"]
    /\ UNCHANGED <<serverVars, frameVars, cfgVars, idleConns, chanVars, connId, dialled, conn,
                   fulVars, waited, crashed>>

\* -------------------------------------------------------------- fulfiller
\* handleConnectionRequest: "for req := range p.requestChan" takes the next
\* request and starts its timer (pool.go:273-280).
FulfillDequeue ==
    /\ ~crashed
    /\ pcF = "range"
    /\ requestChan # << >>
    /\ curReq' = Head(requestChan)
    /\ requestChan' = Tail(requestChan)
    /\ timer' = 0
    /\ pcF' = "select"
    /\ UNCHANGED <<serverVars, frameVars, cfgVars, mu, idleConns, numOpen, connChan, errChan, connVars,
                   pc, conn, result, waited, crashed>>

\* The select finds timeoutChan ready (pool.go:288-290): the request gets
\* ErrConnectionTimeout and the loop goes to the next request.
FulfillTimeout ==
    /\ ~crashed
    /\ pcF = "select"
    /\ timer >= TimeoutSecs
    /\ errChan' = [errChan EXCEPT ![curReq] = TRUE]
    /\ pcF' = "range"
    /\ UNCHANGED <<serverVars, frameVars, cfgVars, mu, idleConns, numOpen, requestChan, connChan,
                   connVars, pc, conn, result, curReq, timer, waited, crashed>>

\* The default branch of the select (pool.go:291-322), one statement a step:
\*   "select"       the timer has not fired; go and lock the mutex
\*   "lock"         p.mu.Lock()
\*   "locked"       hand out an idle connection, or count a new one and go and
\*                  dial, or unlock and try again
\*   "dial"         openNewTcpConnection; on success give the connection
\*   "dialFailLock" lock, undo the count, unlock, try again
FulfillTry ==
    /\ ~crashed
    /\ IF pcF = "select" THEN
          /\ timer < TimeoutSecs
          /\ pcF' = "lock"
          /\ UNCHANGED <<mu, idleConns, numOpen, connChan, connVars>>
       ELSE IF pcF = "lock" THEN
          /\ mu = Free
          /\ mu' = Fulfiller
          /\ pcF' = "locked"
          /\ UNCHANGED <<idleConns, numOpen, connChan, connVars>>
       ELSE IF pcF = "locked" THEN
          IF DOMAIN idleConns # {} THEN
             /\ \E id \in DOMAIN idleConns :
                   /\ connChan' = [connChan EXCEPT ![curReq] = idleConns[id]]
                   /\ idleConns' = TakeIdle(idleConns, connId[idleConns[id]])
             /\ mu' = Free
             /\ pcF' = "range"
             /\ UNCHANGED <<numOpen, connVars>>
          ELSE IF HasHeadroom THEN
             /\ numOpen' = numOpen + 1
             /\ mu' = Free
             /\ pcF' = "dial"
             /\ UNCHANGED <<idleConns, connChan, connVars>>
          ELSE
             /\ mu' = Free
             /\ pcF' = "select"
             /\ UNCHANGED <<idleConns, numOpen, connChan, connVars>>
       ELSE IF pcF = "dial" THEN
          \E ok \in {TRUE} \cup {reliable} :
             IF ok THEN
                /\ dialled < NumCallers
                /\ \E id \in ClockReadings :
                      connId' = [connId EXCEPT ![dialled + 1] = id]
                /\ sock' = [sock EXCEPT ![dialled + 1] = "open"]
                /\ dialled' = dialled + 1
                /\ connChan' = [connChan EXCEPT ![curReq] = dialled + 1]
                /\ pcF' = "range"
                /\ UNCHANGED <<mu, idleConns, numOpen>>
             ELSE
                /\ pcF' = "dialFailLock"
                /\ UNCHANGED <<mu, idleConns, numOpen, connChan, connVars>>
       ELSE
          /\ pcF = "dialFailLock"
          /\ mu = Free
          /\ numOpen' = UndoCount(numOpen)
          /\ pcF' = "select"
          /\ UNCHANGED <<mu, idleConns, connChan, connVars>>
    /\ UNCHANGED <<serverVars, frameVars, cfgVars, requestChan, errChan, pc, conn, result, curReq,
                   timer, waited, crashed>>

\* ------------------------------------------------------------------- time
\* time.After(3 * time.Second) has been started and has not fired (pool.go:279)
TimerRuns == pcF # "range" /\ timer < TimeoutSecs

\* caller c is blocked in the select of get() (pool.go:230)
Waiting(c) == pc[c] = "wait" /\ waited[c] <= TimeoutSecs

\* A second passes: every running timer counts it.
Tick ==
    /\ ~crashed
    /\ TimerRuns \/ \E c \in Callers : Waiting(c)
    /\ timer' = IF TimerRuns THEN timer + 1 ELSE timer
    /\ waited' = [c \in Callers |-> IF Waiting(c) THEN waited[c] + 1 ELSE waited[c]]
    /\ UNCHANGED <<serverVars, frameVars, cfgVars, mu, idleConns, numOpen, chanVars, connVars, pc,
                   conn, result, pcF, curReq, crashed>>

\* ------------------------------------------------------------------- Spec
Next ==
    \/ \E c \in Callers :
          \/ SendData(c)
          \/ GetLock(c)
          \/ GetIdle(c)
          \/ GetQueue(c)
          \/ GetSelect(c)
          \/ GetOpenNew(c)
          \/ DialOk(c)
          \/ DialFail(c)
          \/ DialFailReturn(c)
          \/ WriteOk(c)
          \/ WriteFail(c)
          \/ ReadOk(c)
          \/ ReadFail(c)
          \/ TerminateClose(c)
          \/ TerminateDelete(c)
          \/ ReleaseLock(c)
          \/ ReleaseStore(c)
          \/ ReleaseClose(c)
    \/ FulfillDequeue
    \/ FulfillTimeout
    \/ FulfillTry
    \/ Tick

Spec == Init /\ [][Next]_vars

\* ---------------------------------------------------------------- framing
\* Lengths run past 2^31, so a number is a pair <<hi, lo>> that stands for
\* hi * 2^16 + lo, and a byte string is a sequence of runs <<byte, count>> in
\* which neighbouring runs hold different bytes and no count is zero.
Half == 256 * 256
Big(n) == <<n \div Half, n % Half>>
BigAdd(a, b) == <<a[1] + b[1] + ((a[2] + b[2]) \div Half), (a[2] + b[2]) % Half>>
BigLess(a, b) == a[1] < b[1] \/ (a[1] = b[1] /\ a[2] < b[2])
BigSub(a, b) ==
    IF a[2] >= b[2] THEN <<a[1] - b[1], a[2] - b[2]>>
                    ELSE <<a[1] - b[1] - 1, a[2] + Half - b[2]>>

\* the conversion uint32(n) of an int (pool.go:94): n modulo 2^32
ToUint32(a) == <<a[1] % Half, a[2]>>

\* a - b in uint32 arithmetic (pool.go:120): modulo 2^32
Uint32Sub(a, b) ==
    IF BigLess(a, b) THEN BigSub(BigAdd(a, <<Half, 0>>), b) ELSE BigSub(a, b)

\* binary.BigEndian.PutUint32 (pool.go:94): the four bytes of a uint32
PutUint32(v) == <<v[1] \div 256, v[1] % 256, v[2] \div 256, v[2] % 256>>

\* binary.BigEndian.Uint32 (pool.go:117): the uint32 of four bytes
Uint32(b) == <<b[1] * 256 + b[2], b[3] * 256 + b[4]>>

RECURSIVE BytesLen(_)
\* len(data)
BytesLen(s) == IF s = << >> THEN Big(0) ELSE BigAdd(s[1][2], BytesLen(Tail(s)))

\* the bytes of a followed by the bytes of b
Concat(a, b) ==
    IF a = << >> THEN b
    ELSE IF b = << >> THEN a
    ELSE IF a[Len(a)][1] = b[1][1]
         THEN SubSeq(a, 1, Len(a) - 1)
                  \o << <<b[1][1], BigAdd(a[Len(a)][2], b[1][2])>> >> \o Tail(b)
         ELSE a \o b

RECURSIVE FromSeq(_)
\* the byte string of a sequence of bytes
FromSeq(bs) ==
    IF bs = << >> THEN << >> ELSE Concat(<< <<bs[1], Big(1)>> >>, FromSeq(Tail(bs)))

RECURSIVE ToSeq(_)
\* the sequence of bytes of a (short) byte string
ToSeq(s) ==
    IF s = << >> THEN << >>
    ELSE IF s[1][2] = Big(1) THEN <<s[1][1]>> \o ToSeq(Tail(s))
    ELSE <<s[1][1]>> \o ToSeq(<< <<s[1][1], BigSub(s[1][2], Big(1))>> >> \o Tail(s))

RECURSIVE Take(_, _)
\* the first n bytes of s
Take(s, n) ==
    IF n = Big(0) \/ s = << >> THEN << >>
    ELSE IF BigLess(n, s[1][2]) THEN << <<s[1][1], n>> >>
    ELSE <<s[1]>> \o Take(Tail(s), BigSub(n, s[1][2]))

RECURSIVE Drop(_, _)
\* s without its first n bytes
Drop(s, n) ==
    IF n = Big(0) \/ s = << >> THEN s
    ELSE IF BigLess(n, s[1][2]) THEN << <<s[1][1], BigSub(s[1][2], n)>> >> \o Tail(s)
    ELSE Drop(Tail(s), BigSub(n, s[1][2]))

\* createTcpBuffer (pool.go:89-100): the prefix uint32(prefixSize + len(data)),
\* big-endian, then the data
createTcpBuffer(data) ==
    Concat(FromSeq(PutUint32(ToUint32(BigAdd(Big(prefixSize), BytesLen(data))))), data)

\* io.ReadFull(c.conn, buf) with len(buf) = n on a socket holding s: it fills
\* buf, or waits for more, or meets the end of the stream: io.EOF when it read
\* nothing, io.ErrUnexpectedEOF when it read a part.
ReadFull(s, n, closed) ==
    IF ~BigLess(BytesLen(s), n) THEN [err |-> "nil", buf |-> Take(s, n), rest |-> Drop(s, n)]
    ELSE IF ~closed THEN [err |-> "wait", buf |-> << >>, rest |-> s]
    ELSE IF s = << >> THEN [err |-> "EOF", buf |-> << >>, rest |-> << >>]
    ELSE [err |-> "ErrUnexpectedEOF", buf |-> s, rest |-> << >>]

\* the switch on errors.Is(err, io.EOF) (pool.go:109-114, 125-130)
MapReadError(e) == IF e = "EOF" THEN "ErrConnectionClosed" ELSE e

\* tcpConn.Read (pool.go:103-134): the prefix, then totalDataLength - prefixSize
\* bytes of data
Read(s, closed) ==
    LET p == ReadFull(s, Big(prefixSize), closed) IN
    IF p.err # "nil" THEN [err |-> MapReadError(p.err), data |-> << >>, rest |-> p.rest]
    ELSE LET totalDataLength == Uint32(ToSeq(p.buf))
             d == ReadFull(p.rest, Uint32Sub(totalDataLength, Big(prefixSize)), closed)
         IN  IF d.err # "nil" THEN [err |-> MapReadError(d.err), data |-> << >>, rest |-> d.rest]
             ELSE [err |-> "nil", data |-> d.buf, rest |-> d.rest]

\* the payloads tried: bytes 0 and 5 (5 is also the last prefix byte of a
\* one-byte message) in runs of 1, 2^32 - 4 and 2^32 bytes
FrameBytes == {0, 5}
FrameLens  == {Big(1), <<Half - 1, Half - 4>>, <<Half, 0>>}
FrameRuns  == {<<b, n>> : b \in FrameBytes, n \in FrameLens}
FramePayloads ==
    {<< >>} \cup {<<r>> : r \in FrameRuns}
            \cup {<<rq[1], rq[2]>> : rq \in {x \in FrameRuns \X FrameRuns : x[1][1] # x[2][1]}}

\* tcpConn.Write (pool.go:137-151): build the buffer and write it whole
FrameWrite ==
    /\ ~fClosed
    /\ Len(fSent) < MaxMsgs
    /\ \E data \in FramePayloads :
          /\ fSent' = Append(fSent, data)
          /\ fWire' = Append(fWire, createTcpBuffer(data))
          /\ fStream' = Concat(fStream, createTcpBuffer(data))
    /\ UNCHANGED <<serverVars, poolVars, fClosed, fOut, fIn, fRaw>>

\* the writing side closes the socket
FrameClose ==
    /\ ~fClosed
    /\ fClosed' = TRUE
    /\ UNCHANGED <<serverVars, poolVars, fSent, fWire, fStream, fOut, fIn, fRaw>>

\* no prefix was decoded
NoPrefix == << >>

\* What a tcpConn.Read of the socket holding s meets: the prefix it decodes
\* (pool.go:117), the bytes it takes off the stream, and whether an
\* io.ReadFull of it met the end of the stream.
Met(s, closed) ==
    LET p == ReadFull(s, Big(prefixSize), closed) IN
    [prefix |-> IF p.err = "nil" THEN Uint32(ToSeq(p.buf)) ELSE NoPrefix,
     took   |-> BigSub(BytesLen(s), BytesLen(Read(s, closed).rest)),
     eof    |-> Read(s, closed).err \in {"ErrConnectionClosed", "ErrUnexpectedEOF"}]

\* the other side calls tcpConn.Read, which returns
FrameRead ==
    /\ Len(fOut) <= MaxMsgs
    /\ Read(fStream, fClosed).err # "wait"
    /\ fOut' = Append(fOut, [err |-> Read(fStream, fClosed).err,
                             data |-> Read(fStream, fClosed).data])
    /\ fIn' = Append(fIn, Met(fStream, fClosed))
    /\ fStream' = Read(fStream, fClosed).rest
    /\ UNCHANGED <<serverVars, poolVars, fSent, fWire, fClosed, fRaw>>

FrameInit == Init /\ maxOpenCount = 0 /\ maxIdleCount = 0 /\ reliable

FrameNext == FrameWrite \/ FrameClose \/ FrameRead

FrameSpec == FrameInit /\ [][FrameNext]_vars

\* A remote peer that writes what it likes: single bytes (0, 3 and 6 make the
\* prefixes 0, 3 and 6 and the payloads) and a run of 2^32 - 4 zero bytes.
PeerBytes  == {0, 3, 6}
PeerPieces == {<<b, Big(1)>> : b \in PeerBytes} \cup {<<0, <<Half - 1, Half - 4>> >>}

\* the peer writes a piece to the socket
PeerSend ==
    /\ ~fClosed
    /\ fRaw < MaxRaw
    /\ \E piece \in PeerPieces : fStream' = Concat(fStream, <<piece>>)
    /\ fRaw' = fRaw + 1
    /\ UNCHANGED <<serverVars, poolVars, fSent, fWire, fClosed, fOut, fIn>>

PeerNext == PeerSend \/ FrameClose \/ FrameRead

PeerSpec == FrameInit /\ [][PeerNext]_vars

\* ----------------------------------------------------------------- server
\* HandleClientConnection (handler.go:29-79), one goroutine for each accepted
\* socket (part_000:38-44).  Every statement that reads or writes the objects
\* handlerCfg.Request and handlerCfg.Response, which all sessions share, is a
\* step of its own.

\* the deferred function (handler.go:37-41): conn.Close() when err != nil
SessionEnd(r, e) == [r EXCEPT !.pc = "ended", !.err = e, !.closed = (e # "nil")]

\* clientConn.Read and json.Unmarshal(data, &packet) give an envelope whose
\* command is registered (handler.go:44-59); next is the decoding of its data.
SessionRead(s) ==
    /\ sess[s].pc = "read"
    /\ sess[s].n < MaxReqs
    /\ \E env \in Envelopes :
          /\ Registered(env.command)
          /\ sess' = [sess EXCEPT ![s] = [@ EXCEPT !.pc = "unmarshal", !.n = @ + 1,
                                                   !.packet = env, !.todo = env.fields]]
    /\ UNCHANGED <<poolVars, frameVars, hReq, hRes>>

\* the envelope's command is not registered (handler.go:55-59)
SessionMissingHandler(s) ==
    /\ sess[s].pc = "read"
    /\ sess[s].n < MaxReqs
    /\ \E env \in Envelopes :
          /\ ~Registered(env.command)
          /\ sess' = [sess EXCEPT ![s] =
                         SessionEnd([@ EXCEPT !.n = @ + 1, !.packet = env], "ErrMissingHandler")]
    /\ UNCHANGED <<poolVars, frameVars, hReq, hRes>>

\* clientConn.Read fails: the client has closed the socket (handler.go:44-47)
SessionReadFail(s) ==
    /\ sess[s].pc = "read"
    /\ sess' = [sess EXCEPT ![s] = SessionEnd(@, "ErrConnectionClosed")]
    /\ UNCHANGED <<poolVars, frameVars, hReq, hRes>>

\* json.Unmarshal(packet.Data, handlerCfg.Request) (handler.go:61): the data
\* is checked, then every field it holds is stored into the shared object, one
\* after the other; the fields it does not hold are left as they are.
SessionUnmarshal(s) ==
    /\ sess[s].pc = "unmarshal"
    /\ sess[s].packet.wellFormed
    /\ IF sess[s].todo = {}
       THEN /\ sess' = [sess EXCEPT ![s].pc = "handle"]
            /\ UNCHANGED hReq
       ELSE LET f == IF "username" \in sess[s].todo THEN "username" ELSE "password" IN
            /\ hReq' = [hReq EXCEPT ![f] = Tag(s, sess[s].n)]
            /\ sess' = [sess EXCEPT ![s] =
                           [@ EXCEPT !.todo = @ \ {f},
                                     !.pc = IF sess[s].todo = {f} THEN "handle" ELSE "unmarshal"]]
    /\ UNCHANGED <<poolVars, frameVars, hRes>>

\* json.Unmarshal finds the data malformed (handler.go:61-64)
SessionUnmarshalFail(s) ==
    /\ sess[s].pc = "unmarshal"
    /\ ~sess[s].packet.wellFormed
    /\ sess' = [sess EXCEPT ![s] = SessionEnd(@, "SyntaxError")]
    /\ UNCHANGED <<poolVars, frameVars, hReq, hRes>>

\* handlerCfg.Handler(handlerCfg.Request, handlerCfg.Response) (handler.go:67)
SessionHandle(s) ==
    /\ sess[s].pc = "handle"
    /\ hRes' = LoginUser(hReq, hRes)
    /\ sess' = [sess EXCEPT ![s] = [@ EXCEPT !.pc = "reply", !.arg = hReq, !.res = hRes,
                                             !.calls = @ + 1]]
    /\ UNCHANGED <<poolVars, frameVars, hReq>>

\* json.Marshal(handlerCfg.Response) and clientConn.Write (handler.go:69-77)
SessionReply(s) ==
    /\ sess[s].pc = "reply"
    /\ sess' = [sess EXCEPT ![s] = [@ EXCEPT !.pc = "read", !.response = hRes,
                                             !.answered = @ + 1]]
    /\ UNCHANGED <<poolVars, frameVars, hReq, hRes>>

\* clientConn.Write fails (handler.go:74-77)
SessionReplyFail(s) ==
    /\ sess[s].pc = "reply"
    /\ sess' = [sess EXCEPT ![s] = SessionEnd(@, "WriteError")]
    /\ UNCHANGED <<poolVars, frameVars, hReq, hRes>>

SessionStep(s) ==
    \/ SessionRead(s)
    \/ SessionMissingHandler(s)
    \/ SessionReadFail(s)
    \/ SessionUnmarshal(s)
    \/ SessionUnmarshalFail(s)
    \/ SessionHandle(s)
    \/ SessionReply(s)
    \/ SessionReplyFail(s)

ServerInit == Init /\ maxOpenCount = 0 /\ maxIdleCount = 0 /\ reliable

ServerNext == \E s \in Sessions : SessionStep(s)

ServerSpec == ServerInit /\ [][ServerNext]_vars

\* ------------------------------------------------- what the claims talk of
IoErrors == {"WriteError", "ReadError"}

\* caller c has a connection from get() and has not finished with it
HandedOut(c) ==
    pc[c] \in {"write", "read", "terminate", "termDelete", "releaseLock", "releaseDecide"}

\* caller c is writing to, reading from or releasing its connection
Using(c) == pc[c] \in {"write", "read", "releaseLock", "releaseDecide"}

Owners(k) == {c \in Callers : HandedOut(c) /\ conn[c] = k}
Grants(k) == {c \in Callers : connChan[c] = k}
IdleObjs  == Range(idleConns)

\* tasks between "numOpen++" and the end of their dial
Dialling ==
    Cardinality({c \in Callers : pc[c] = "dial"}) + (IF pcF = "dial" THEN 1 ELSE 0)

\* tasks between "numOpen++" and the "numOpen--" of a failed dial
InDialWindow ==
    \/ \E c \in Callers : pc[c] \in {"dial", "dialFailLock"}
    \/ pcF \in {"dial", "dialFailLock"}

OpenSockets == {k \in Conns : sock[k] = "open"}

\* the number of tasks between "numOpen++" and the end of their dial or the
\* "numOpen--" of its failure
InDialWindowCount ==
    Cardinality({c \in Callers : pc[c] \in {"dial", "dialFailLock"}})
        + (IF pcF \in {"dial", "dialFailLock"} THEN 1 ELSE 0)

\* the sockets release() closed and uncounted
ClosedByRelease == {k \in Conns : sock[k] = "closedRelease"}

\* a step that resolves the queued request of c, or brings the fulfiller nearer
\* to resolving it
ResolvingStep(c) == GetSelect(c) \/ FulfillDequeue \/ FulfillTimeout \/ FulfillTry

\* some step of a caller or of the fulfiller is possible (time apart)
Steps ==
    \/ \E c \in Callers :
          \/ SendData(c) \/ GetLock(c) \/ GetIdle(c) \/ GetQueue(c)
          \/ GetSelect(c) \/ GetOpenNew(c) \/ DialOk(c) \/ DialFail(c)
          \/ DialFailReturn(c) \/ WriteOk(c) \/ WriteFail(c) \/ ReadOk(c)
          \/ ReadFail(c) \/ TerminateClose(c) \/ TerminateDelete(c)
          \/ ReleaseLock(c) \/ ReleaseStore(c) \/ ReleaseClose(c)
    \/ FulfillDequeue \/ FulfillTimeout \/ FulfillTry

\* nothing is left to do or nothing can be done
AtRest == ~ENABLED Steps

\* ------------------------------------------------------------------ claims

\* C1: with maxOpenConn = N > 0 and a server that answers every request, every
\* SendData call returns, and returns a response without error: whenever the
\* program has come to rest, every caller has its response.
C1_EveryCallReturnsOk ==
    (maxOpenCount > 0 /\ reliable /\ AtRest)
        => \A c \in Callers : pc[c] = "done" /\ result[c] = "ok"

\* C2: with maxOpenConn = N > 0 the connections open at one time (idle, in
\* use, granted, or being dialled) never number more than N.
C2_OpenBound ==
    maxOpenCount > 0 => Cardinality(OpenSockets) + Dialling <= maxOpenCount

\* the pool is full while a caller is queued for a connection
C2_Witness ==
    /\ maxOpenCount > 0
    /\ Cardinality(OpenSockets) + Dialling = maxOpenCount
    /\ \E c \in Callers : pc[c] = "wait"
    /\ \E c \in Callers : pc[c] = "read"

\* C3: a connection is never idle and handed out at once, and never handed
\* out to two callers at once.
C3_AtMostOneOwner ==
    \A k \in Conns :
        Cardinality(Owners(k)) + Cardinality(Grants(k))
            + (IF k \in IdleObjs THEN 1 ELSE 0) <= 1

\* a caller uses a connection that another caller used and released, while
\* another connection is idle
C3_Witness ==
    \E c, d \in Callers :
        /\ c # d
        /\ Using(c) /\ pc[d] = "done" /\ result[d] = "ok"
        /\ conn[c] = conn[d]
        /\ IdleObjs # {}

\* C4: outside the window of a dial, numOpen is the number of connections
\* idle or in use; every close (by release or by terminate) uncounts one.
C4_NumOpenCounts ==
    ~InDialWindow =>
        numOpen = Cardinality({k \in Conns :
                      k \in IdleObjs \/ Owners(k) # {} \/ Grants(k) # {}})

\* C5: with maxOpenConn = 1, a connection held in use and a second caller
\* queued, the second caller gets ConnectionTimeout once the wait has elapsed
\* (it is not left waiting when the program has come to rest), and not before
\* TimeoutSecs have passed.
C5_TimeoutCorrect ==
    maxOpenCount = 1 =>
        \A c \in Callers :
            /\ result[c] = "ErrConnectionTimeout" => waited[c] >= TimeoutSecs
            /\ (AtRest /\ \E d \in Callers : HandedOut(d)) => pc[c] # "wait"

\* C6: the idle map never holds more than maxIdleCount connections, those it
\* holds are open, and with maxIdleConns = 0 no connection is stored or reused.
C6_IdleCap ==
    /\ Cardinality(DOMAIN idleConns) <= maxIdleCount
    /\ \A k \in IdleObjs : sock[k] = "open"
    /\ maxIdleCount = 0 =>
          \A c, d \in Callers : c # d /\ conn[c] # NoConn => conn[c] # conn[d]

\* release found the idle map full and closed the connection instead
C6_Witness ==
    /\ maxIdleCount > 0
    /\ Cardinality(DOMAIN idleConns) = maxIdleCount
    /\ \E k \in Conns : sock[k] = "closedRelease"

\* C7: after a failed write or read the connection is terminated: closed, not
\* idle, not handed out or granted again; the caller gets the error and uses
\* no other connection.
C7_FailedConnDiscarded ==
    /\ \A c \in Callers :
          result[c] \in IoErrors =>
              /\ pc[c] \in {"terminate", "termDelete", "done"}
              /\ pc[c] = "done" => sock[conn[c]] = "closedTerminate"
    /\ \A k \in Conns :
          sock[k] = "closedTerminate" =>
              /\ k \notin IdleObjs
              /\ Grants(k) = {}
              /\ \A d \in Callers : Using(d) => conn[d] # k
              /\ \E c \in Callers : conn[c] = k /\ result[c] \in IoErrors

\* a read failed on a connection that had been reused, the caller has the
\* error, and a later caller works on another connection
C7_Witness ==
    \E c, d, e \in Callers :
        /\ pc[c] = "done" /\ result[c] = "ReadError"
        /\ pc[d] = "done" /\ result[d] = "ok" /\ conn[d] = conn[c]
        /\ Using(e) /\ conn[e] # conn[c]

\* C8: with maxOpenConn = maxIdleConns = N > 0 and no failing write or read,
\* at most N connections are ever dialled and none is closed.
C8_AtMostNDialled ==
    (maxOpenCount > 0 /\ maxOpenCount = maxIdleCount /\ reliable) =>
        /\ dialled <= maxOpenCount
        /\ \A k \in Conns : sock[k] \in {"none", "open"}

\* N connections were dialled and every call returned its response
C8_Witness ==
    /\ maxOpenCount > 0 /\ maxOpenCount = maxIdleCount /\ reliable
    /\ dialled = maxOpenCount
    /\ \A c \in Callers : pc[c] = "done" /\ result[c] = "ok"

\* C9: every payload written is read back as it was, message by message, in
\* order: the i-th Read returns the i-th payload written and no error.
C9_RoundTrip ==
    \A i \in 1..Len(fOut) :
        i <= Len(fSent) => fOut[i] = [err |-> "nil", data |-> fSent[i]]

\* C10: the first four bytes of every buffer built, read as a big-endian
\* unsigned 32-bit number, are 4 + len(payload).
C10_PrefixIsLength ==
    \A i \in 1..Len(fWire) :
        Uint32(ToSeq(Take(fWire[i], Big(prefixSize))))
            = BigAdd(Big(prefixSize), BytesLen(fSent[i]))

\* C11: a Read that decodes a prefix less than 4 fails with a protocol error,
\* returns no data and takes no byte after the prefix off the stream.
C11_ShortPrefixRejected ==
    \A i \in 1..Len(fIn) :
        (fIn[i].prefix # NoPrefix /\ BigLess(fIn[i].prefix, Big(prefixSize))) =>
            /\ fOut[i].err = "ErrProtocol"
            /\ fOut[i].data = << >>
            /\ fIn[i].took = Big(prefixSize)

\* C12: a Read that meets the end of the stream before its message is
\* complete, wherever in the prefix or in the payload, fails with
\* ErrConnectionClosed.
C12_EndOfStreamIsClosed ==
    \A i \in 1..Len(fIn) :
        (fIn[i].eof /\ (fIn[i].prefix = NoPrefix \/ ~BigLess(fIn[i].prefix, Big(prefixSize)))) =>
            fOut[i].err = "ErrConnectionClosed"

\* the request the envelope of session s decodes to in a new request shape
Decoded(s) ==
    [f \in Fields |-> IF f \in sess[s].packet.fields THEN Tag(s, sess[s].n) ELSE Zero]

\* C13: the handler of a session is given the request just decoded on that
\* session and a new response shape, and the response the session writes is
\* what the handler makes of these.
C13_SessionsIsolated ==
    \A s \in Sessions :
        /\ sess[s].pc = "reply" =>
              /\ sess[s].arg = Decoded(s)
              /\ sess[s].res = NewResponse
        /\ (sess[s].pc = "read" /\ sess[s].answered > 0) =>
              sess[s].response = LoginUser(Decoded(s), NewResponse)

\* C14: a session that received an envelope with an unregistered command has
\* ended with ErrMissingHandler and a closed socket, having called no handler
\* and written no response for that envelope; and no session ends with
\* ErrMissingHandler, or is closed, for the envelope of another.
C14_MissingHandlerEndsSession ==
    \A s \in Sessions :
        /\ (sess[s].n > 0 /\ sess[s].packet.command \notin handlers) =>
              /\ sess[s].pc = "ended" /\ sess[s].err = "ErrMissingHandler"
              /\ sess[s].closed
              /\ sess[s].calls = sess[s].n - 1
              /\ sess[s].answered = sess[s].n - 1
        /\ sess[s].err = "ErrMissingHandler" => sess[s].packet.command \notin handlers
        /\ sess[s].pc # "ended" =>
              /\ sess[s].err = "nil" /\ ~sess[s].closed
              /\ ENABLED SessionStep(s)

\* a session has ended on an unknown command, after it answered an envelope,
\* while another session is about to answer its second envelope
C14_Witness ==
    \E s, t \in Sessions :
        /\ s # t
        /\ sess[s].err = "ErrMissingHandler" /\ sess[s].answered > 0
        /\ sess[t].pc = "reply" /\ sess[t].answered > 0

\* C15: a task that is about to read or write the idle map or the open
\* counter holds the mutex, no two tasks are at the idle map at once, and the
\* runtime never finds the map accessed concurrently.
C15_AccessUnderLock ==
    /\ \A c \in Callers :
          /\ pc[c] \in {"getDecide", "releaseDecide", "termDelete"} => mu = c
          /\ pc[c] = "termDelete" => ~MapAccessedBesides(c)
    /\ pcF = "locked" => mu = Fulfiller
    /\ ~crashed

\* C16: a caller holds the mutex only while get() or release() decides: not
\* while it waits on the channels of its request, dials, writes, reads, or
\* after it has returned.
C16_LockOnlyForDecision ==
    \A c \in Callers : mu = c => pc[c] \in {"getDecide", "releaseDecide"}

\* C17: a queued caller is resolved within TimeoutSecs of queueing: once it
\* has waited longer, that is only for a step that is due, its own receive or
\* a step of the fulfiller.
C17_ResolvedWithinBudget ==
    \A c \in Callers :
        (pc[c] = "wait" /\ waited[c] > TimeoutSecs) => ENABLED ResolvingStep(c)

C19_ServedInOrder ==
    /\ \A i \in 1..Len(requestChan) :
          /\ pc[requestChan[i]] = "wait"
          /\ connChan[requestChan[i]] = NoConn /\ ~errChan[requestChan[i]]
    /\ pcF # "range" =>
          /\ pc[curReq] = "wait"
          /\ connChan[curReq] = NoConn /\ ~errChan[curReq]
    /\ AtRest => (pcF = "range" /\ requestChan = << >>)

\* C20: a request taken by the fulfiller gets one outcome: never a connection
\* and a timeout, nothing after its caller has left the select, a timeout
\* only when the timer has fired (a failed dial gives none), and at rest the
\* caller of the request taken last is not still waiting for one.
C20_ExactlyOneOutcome ==
    \A c \in Callers :
        /\ ~(connChan[c] # NoConn /\ errChan[c])
        /\ pc[c] # "wait" => (connChan[c] = NoConn /\ ~errChan[c])
        /\ errChan[c] => (curReq = c /\ timer >= TimeoutSecs)
        /\ connChan[c] # NoConn => (sock[connChan[c]] = "open" /\ Owners(connChan[c]) = {})
        /\ (AtRest /\ curReq = c) => pc[c] # "wait"

====
